---------------------------- MODULE Spec2Model ----------------------------
(***************************************************************************)
(* The STM32F7 flash driver of libopencm3 (lib/stm32/f7/flash.c) as a      *)
(* state machine.  The driver is a sequential program whose only effects   *)
(* are accesses to memory-mapped registers, so every volatile access (a    *)
(* register read, a register write, a store to the flash array, the DSB    *)
(* barrier) is one step, and the flash controller acts between the steps   *)
(* (it ends the operation in progress, it lets a new latency take effect). *)
(*                                                                         *)
(* 32-bit words are sets of bit positions (a subset of 0..31): AND is      *)
(* intersection, OR is union, NOT is complement in 0..31, a left shift     *)
(* moves the positions and drops those that leave the word.                *)
(***************************************************************************)
EXTENDS Integers, Sequences, FiniteSets, TLC

VARIABLES
    CR,          \* FLASH_CR as the controller holds it
    SR,          \* FLASH_SR
    ACR,         \* FLASH_ACR as last written
    latencyEff,  \* the latency the flash interface works with (read back in ACR)
    OPTCR,       \* FLASH_OPTCR
    keyState,    \* FLASH_KEYR key sequence: "idle", "key1" (KEY1 seen) or "latched"
    optKeyState, \* FLASH_OPTKEYR key sequence
    stack,       \* the driver's call stack, one frame per active function
    call,        \* the driver call in progress, or the last one that returned
    trace        \* the bus accesses of that call, in program order

vars == <<CR, SR, ACR, latencyEff, OPTCR, keyState, optKeyState, stack, call, trace>>

hwvars == <<CR, SR, ACR, latencyEff, OPTCR, keyState, optKeyState>>

-----------------------------------------------------------------------------
(* Bounds of the model *)

\* busy polls (or latency polls) the driver is followed through in one wait loop
MaxPolls == 1

\* longest data block handed to flash_program
MaxLen == 2

\* status flags the controller raises before the caller clears them
MaxFlagsRaised == 2

-----------------------------------------------------------------------------
(* Words *)

WordBits == 0..31

\* the word of a small natural number
BitsOf(n) == {b \in 0..30 : (n \div (2^b)) % 2 = 1}

\* the word written as eight hexadecimal digits, most significant first
Hex32(d) == {p \in WordBits : (d[8 - (p \div 4)] \div (2^(p % 4))) % 2 = 1}

\* w << k in 32 bits
Shl(w, k) == {b + k : b \in w} \cap WordBits

\* ~w in 32 bits
Not32(w) == WordBits \ w

\* w + 1 in 32 bits (wraps to 0)
Inc32(w) ==
    IF WordBits \subseteq w THEN {}
    ELSE LET z == CHOOSE b \in WordBits : b \notin w /\ \A c \in 0..(b-1) : c \in w
         IN  (w \ (0..(z-1))) \cup {z}

\* w + n in 32 bits, n a small natural number
RECURSIVE Add32(_, _)
Add32(w, n) == IF n = 0 THEN w ELSE Add32(Inc32(w), n - 1)

-----------------------------------------------------------------------------
(* Register bits and keys: libopencm3/stm32/f7/flash.h *)

FLASH_ACR_LATENCY_MASK == BitsOf(15)
FLASH_ACR_PRFTEN == {8}
FLASH_ACR_ARTEN == {9}
FLASH_ACR_ARTRST == {11}

FLASH_SR_BSY == {16}
FLASH_SR_ERSERR == {7}
FLASH_SR_PGPERR == {6}
FLASH_SR_PGAERR == {5}
FLASH_SR_WRPERR == {4}
FLASH_SR_EOP == {0}

FLASH_CR_LOCK == {31}
FLASH_CR_STRT == {16}
FLASH_CR_MER == {2}
FLASH_CR_SER == {1}
FLASH_CR_PG == {0}
FLASH_CR_SNB_SHIFT == 3
FLASH_CR_SNB_MASK == BitsOf(31)
FLASH_CR_PROGRAM_MASK == BitsOf(3)
FLASH_CR_PROGRAM_SHIFT == 8
FLASH_CR_PROGRAM_X8 == BitsOf(0)
FLASH_CR_PROGRAM_X16 == BitsOf(1)
FLASH_CR_PROGRAM_X32 == BitsOf(2)
FLASH_CR_PROGRAM_X64 == BitsOf(3)

FLASH_OPTCR_OPTSTRT == {1}
FLASH_OPTCR_OPTLOCK == {0}

FLASH_KEYR_KEY1 == Hex32(<<4, 5, 6, 7, 0, 1, 2, 3>>)
FLASH_KEYR_KEY2 == Hex32(<<12, 13, 14, 15, 8, 9, 10, 11>>)
FLASH_OPTKEYR_KEY1 == Hex32(<<0, 8, 1, 9, 2, 10, 3, 11>>)
FLASH_OPTKEYR_KEY2 == Hex32(<<4, 12, 5, 13, 6, 14, 7, 15>>)

\* the five write-one-to-clear flags of FLASH_SR
StatusFlags == FLASH_SR_EOP \cup FLASH_SR_WRPERR \cup FLASH_SR_PGAERR \cup
               FLASH_SR_PGPERR \cup FLASH_SR_ERSERR

\* the fields of FLASH_CR
SNB_FIELD == Shl(FLASH_CR_SNB_MASK, FLASH_CR_SNB_SHIFT)
PSIZE_FIELD == Shl(FLASH_CR_PROGRAM_MASK, FLASH_CR_PROGRAM_SHIFT)

-----------------------------------------------------------------------------
(***************************************************************************)
(* The flash controller.  It is hardware, not code of the driver: it is    *)
(* modelled from what the specification says of it (section 2: a locked    *)
(* controller rejects the write; section 3: the lock latches, the busy     *)
(* flag, the write-one-to-clear flags; section 7: the error flags).        *)
(* Everything the specification leaves open is a register bank: a read     *)
(* returns what was written.                                               *)
(***************************************************************************)

Hw == [CR |-> CR, SR |-> SR, ACR |-> ACR, latencyEff |-> latencyEff,
       OPTCR |-> OPTCR, keyState |-> keyState, optKeyState |-> optKeyState]

HwSet(h) ==
    /\ CR' = h.CR
    /\ SR' = h.SR
    /\ ACR' = h.ACR
    /\ latencyEff' = h.latencyEff
    /\ OPTCR' = h.OPTCR
    /\ keyState' = h.keyState
    /\ optKeyState' = h.optKeyState

Busy(h) == FLASH_SR_BSY \subseteq h.SR

\* the flags the controller may raise at one event: none, or one of the five
FlagChoices(h) ==
    {{}} \cup (IF Cardinality(h.SR \cap StatusFlags) < MaxFlagsRaised
               THEN {{f} : f \in StatusFlags}
               ELSE {})

\* a key sequence that is not latched starts again when the lock bit is set
Rearm(k) == IF k = "latched" THEN k ELSE "idle"

\* a write of v to FLASH_CR: ignored while locked; the lock bit is set-only;
\* the strobe with exactly one erase selected starts the erase
HwWriteCR(h, v) ==
    IF FLASH_CR_LOCK \subseteq h.CR THEN {h}
    ELSE LET relock == FLASH_CR_LOCK \subseteq v
             ks == IF relock THEN Rearm(h.keyState) ELSE h.keyState
             strobe == FLASH_CR_STRT \subseteq v
             erase == /\ Cardinality(v \cap (FLASH_CR_SER \cup FLASH_CR_MER)) = 1
                      /\ ~(FLASH_CR_PG \subseteq v)
         IN  IF strobe /\ erase
             THEN {[h EXCEPT !.CR = v, !.SR = @ \cup FLASH_SR_BSY, !.keyState = ks]}
             ELSE IF strobe
             THEN {[h EXCEPT !.CR = v \ FLASH_CR_STRT, !.SR = @ \cup f, !.keyState = ks] :
                      f \in FlagChoices(h)}
             ELSE {[h EXCEPT !.CR = v, !.keyState = ks]}

\* a write of v to FLASH_KEYR: KEY1 then KEY2 clears the lock bit, anything
\* else latches the controller locked until reset
HwWriteKEYR(h, v) ==
    IF h.keyState = "latched" THEN {h}
    ELSE IF h.keyState = "idle" /\ v = FLASH_KEYR_KEY1 /\ FLASH_CR_LOCK \subseteq h.CR
    THEN {[h EXCEPT !.keyState = "key1"]}
    ELSE IF h.keyState = "key1" /\ v = FLASH_KEYR_KEY2
    THEN {[h EXCEPT !.keyState = "idle", !.CR = @ \ FLASH_CR_LOCK]}
    ELSE {[h EXCEPT !.keyState = "latched", !.CR = @ \cup FLASH_CR_LOCK]}

\* a write of v to FLASH_OPTCR: ignored while locked; the option start bit
\* starts the option byte programming
HwWriteOPTCR(h, v) ==
    IF FLASH_OPTCR_OPTLOCK \subseteq h.OPTCR THEN {h}
    ELSE LET relock == FLASH_OPTCR_OPTLOCK \subseteq v
             ks == IF relock THEN Rearm(h.optKeyState) ELSE h.optKeyState
         IN  IF FLASH_OPTCR_OPTSTRT \subseteq v /\ ~relock
             THEN {[h EXCEPT !.OPTCR = v, !.SR = @ \cup FLASH_SR_BSY, !.optKeyState = ks]}
             ELSE {[h EXCEPT !.OPTCR = v \ FLASH_OPTCR_OPTSTRT, !.optKeyState = ks]}

HwWriteOPTKEYR(h, v) ==
    IF h.optKeyState = "latched" THEN {h}
    ELSE IF h.optKeyState = "idle" /\ v = FLASH_OPTKEYR_KEY1 /\ FLASH_OPTCR_OPTLOCK \subseteq h.OPTCR
    THEN {[h EXCEPT !.optKeyState = "key1"]}
    ELSE IF h.optKeyState = "key1" /\ v = FLASH_OPTKEYR_KEY2
    THEN {[h EXCEPT !.optKeyState = "idle", !.OPTCR = @ \ FLASH_OPTCR_OPTLOCK]}
    ELSE {[h EXCEPT !.optKeyState = "latched", !.OPTCR = @ \cup FLASH_OPTCR_OPTLOCK]}

\* a write of v to FLASH_SR: a one clears a flag, the busy flag is read-only
HwWriteSR(h, v) == {[h EXCEPT !.SR = @ \ (v \cap StatusFlags)]}

\* a write of v to FLASH_ACR: the new latency takes effect later
HwWriteACR(h, v) == {[h EXCEPT !.ACR = v]}

\* the controller's states after the write of v to reg; a write to the
\* control registers stalls on the bus while an operation is in progress
HwWrite(h, reg, v) ==
    CASE reg = "FLASH_CR" -> IF Busy(h) THEN {} ELSE HwWriteCR(h, v)
      [] reg = "FLASH_OPTCR" -> IF Busy(h) THEN {} ELSE HwWriteOPTCR(h, v)
      [] reg = "FLASH_KEYR" -> HwWriteKEYR(h, v)
      [] reg = "FLASH_OPTKEYR" -> HwWriteOPTKEYR(h, v)
      [] reg = "FLASH_SR" -> HwWriteSR(h, v)
      [] reg = "FLASH_ACR" -> HwWriteACR(h, v)

\* what a read of reg returns
HwRead(h, reg) ==
    CASE reg = "FLASH_CR" -> h.CR
      [] reg = "FLASH_SR" -> h.SR
      [] reg = "FLASH_OPTCR" -> h.OPTCR
      [] reg = "FLASH_ACR" -> (h.ACR \ FLASH_ACR_LATENCY_MASK) \cup h.latencyEff

\* a store to the flash array: with the program bit set it starts a program
\* operation, otherwise the controller rejects it and may raise a flag
HwStore(h) ==
    IF Busy(h) THEN {}
    ELSE IF FLASH_CR_PG \subseteq h.CR
    THEN {[h EXCEPT !.SR = @ \cup FLASH_SR_BSY]}
    ELSE {[h EXCEPT !.SR = @ \cup f] : f \in FlagChoices(h)}

\* the operation in progress ends: busy, the strobe and the option start bit
\* fall, and the controller may raise a flag
HwComplete ==
    /\ Busy(Hw)
    /\ \E f \in FlagChoices(Hw) :
          HwSet([Hw EXCEPT !.SR = (@ \ FLASH_SR_BSY) \cup f,
                           !.CR = @ \ FLASH_CR_STRT,
                           !.OPTCR = @ \ FLASH_OPTCR_OPTSTRT])
    /\ UNCHANGED <<stack, call, trace>>

\* the latency written to FLASH_ACR takes effect
HwLatency ==
    /\ latencyEff # ACR \cap FLASH_ACR_LATENCY_MASK
    /\ latencyEff' = ACR \cap FLASH_ACR_LATENCY_MASK
    /\ UNCHANGED <<CR, SR, ACR, OPTCR, keyState, optKeyState, stack, call, trace>>

-----------------------------------------------------------------------------
(***************************************************************************)
(* The driver.  A frame of the call stack is one active function: its      *)
(* name, its position pc (the next access to make, numbered in program     *)
(* order), its arguments, the value last read into a temporary (reg32, or  *)
(* the operand of a read-modify-write) and a counter (the loop index i, or *)
(* the polls of a wait loop).                                              *)
(***************************************************************************)

Frame(fn, arg) == [fn |-> fn, pc |-> 1, arg |-> arg, tmp |-> {}, n |-> 0]

Top == stack[Len(stack)]

At(fn, pc) == stack # <<>> /\ Top.fn = fn /\ Top.pc = pc

\* one bus access of the driver
Ev(op, reg, val, addr) == [by |-> Top.fn, op |-> op, reg |-> reg, val |-> val, addr |-> addr]

Goto(pc) == stack' = [stack EXCEPT ![Len(stack)].pc = pc]

Return == stack' = SubSeq(stack, 1, Len(stack) - 1)

\* call fn(arg); the caller goes on at pc when it returns
Enter(pc, fn, arg) ==
    /\ stack' = Append([stack EXCEPT ![Len(stack)].pc = pc], Frame(fn, arg))
    /\ UNCHANGED <<hwvars, call, trace>>

\* the application calls fn(arg) when no driver call is in progress
Begin(fn, arg) ==
    /\ stack = <<>>
    /\ stack' = <<Frame(fn, arg)>>
    /\ call' = [fn |-> fn, arg |-> arg]
    /\ trace' = <<>>
    /\ UNCHANGED hwvars

\* tmp = reg; then go on at pc
Read(reg, pc) ==
    /\ stack' = [stack EXCEPT ![Len(stack)].pc = pc, ![Len(stack)].tmp = HwRead(Hw, reg)]
    /\ trace' = Append(trace, Ev("read", reg, HwRead(Hw, reg), {}))
    /\ UNCHANGED <<hwvars, call>>

\* reg = v
Write(reg, v) ==
    /\ \E h \in HwWrite(Hw, reg, v) : HwSet(h)
    /\ trace' = Append(trace, Ev("write", reg, v, {}))
    /\ UNCHANGED call

\* MMIOn(address) = data
Store(mmio, address, data) ==
    /\ \E h \in HwStore(Hw) : HwSet(h)
    /\ trace' = Append(trace, Ev("store", mmio, data, address))
    /\ UNCHANGED call

\* a step that makes no bus access
Local == UNCHANGED <<hwvars, call, trace>>

-----------------------------------------------------------------------------
(* Arguments the application passes *)

\* program_size: the four documented widths and 0x00800000, which the
\* shift by FLASH_CR_PROGRAM_SHIFT moves onto the lock bit
ProgramSizes == {FLASH_CR_PROGRAM_X8, FLASH_CR_PROGRAM_X16, FLASH_CR_PROGRAM_X32,
                 FLASH_CR_PROGRAM_X64, {23}}

\* sector (uint8_t): a documented sector number and one beyond the field
Sectors == {3, 35}

\* address: 0x08020000 and 0xFFFFFFFF (address + i wraps)
Addresses == {Hex32(<<0, 8, 0, 2, 0, 0, 0, 0>>), WordBits}

\* address of flash_program: 0xFFFFFFFF, so that address + i wraps
BulkAddresses == {WordBits}

\* data of a program primitive
Data == {90, 165}

\* the data block of flash_program: the bytes 1, 2, ...
Blocks == {[i \in 1..MaxLen |-> i]}

\* ws: 0, 7, 15, and 16, 23 and 0x800, which do not fit the latency field
WaitStates == {BitsOf(0), BitsOf(7), BitsOf(15), BitsOf(16), BitsOf(23), BitsOf(2048)}

\* the option byte image: 0x0FFFAAFC and 0x0FFFAAFF
OptionBytes == {Hex32(<<0, 15, 15, 15, 10, 10, 15, 12>>), Hex32(<<0, 15, 15, 15, 10, 10, 15, 15>>)}

-----------------------------------------------------------------------------
(* The functions of flash.c *)

flash_set_program_size ==
    \/ /\ At("flash_set_program_size", 1)
       /\ Read("FLASH_CR", 2)
    \/ /\ At("flash_set_program_size", 2)
       /\ Write("FLASH_CR", Top.tmp \cap Not32(Shl(FLASH_CR_PROGRAM_MASK, FLASH_CR_PROGRAM_SHIFT)))
       /\ Goto(3)
    \/ /\ At("flash_set_program_size", 3)
       /\ Read("FLASH_CR", 4)
    \/ /\ At("flash_set_program_size", 4)
       /\ Write("FLASH_CR", Top.tmp \cup Shl(Top.arg.psize, FLASH_CR_PROGRAM_SHIFT))
       /\ Return

flash_pipeline_stall ==
    /\ At("flash_pipeline_stall", 1)
    /\ trace' = Append(trace, Ev("dsb", "", {}, {}))
    /\ Return
    /\ UNCHANGED <<hwvars, call>>

WaitStatesPending_never(acr, ws) == FALSE

\* the whole register compared with ws
WaitStatesPending_unmasked(acr, ws) == acr # ws

\* (FLASH_ACR & FLASH_ACR_LATENCY_MASK) != ws
WaitStatesPending(acr, ws) == (acr \cap FLASH_ACR_LATENCY_MASK) # ws

flash_set_ws ==
    \/ \E ws \in WaitStates : Begin("flash_set_ws", [ws |-> ws])
    \/ /\ At("flash_set_ws", 1)
       /\ Read("FLASH_ACR", 2)
    \/ /\ At("flash_set_ws", 2)
       /\ Write("FLASH_ACR", (Top.tmp \cap Not32(FLASH_ACR_LATENCY_MASK)) \cup Top.arg.ws)
       /\ Goto(3)
    \/ /\ At("flash_set_ws", 3)
       /\ WaitStatesPending(HwRead(Hw, "FLASH_ACR"), Top.arg.ws)
       /\ Top.n < MaxPolls
       /\ stack' = [stack EXCEPT ![Len(stack)].n = @ + 1]
       /\ trace' = Append(trace, Ev("read", "FLASH_ACR", HwRead(Hw, "FLASH_ACR"), {}))
       /\ UNCHANGED <<hwvars, call>>
    \/ /\ At("flash_set_ws", 3)
       /\ ~WaitStatesPending(HwRead(Hw, "FLASH_ACR"), Top.arg.ws)
       /\ trace' = Append(trace, Ev("read", "FLASH_ACR", HwRead(Hw, "FLASH_ACR"), {}))
       /\ Return
       /\ UNCHANGED <<hwvars, call>>

UnlockSequenceClear_skipped(cr) == cr

\* FLASH_CR |= FLASH_CR_LOCK, which clears the unlock sequence state
UnlockSequenceClear(cr) == cr \cup FLASH_CR_LOCK

\* the two keys written in the wrong order
flash_unlock_swapped ==
    \/ Begin("flash_unlock", [none |-> {}])
    \/ /\ At("flash_unlock", 1)
       /\ Read("FLASH_CR", 2)
    \/ /\ At("flash_unlock", 2)
       /\ Write("FLASH_CR", UnlockSequenceClear(Top.tmp))
       /\ Goto(3)
    \/ /\ At("flash_unlock", 3)
       /\ Write("FLASH_KEYR", FLASH_KEYR_KEY2)
       /\ Goto(4)
    \/ /\ At("flash_unlock", 4)
       /\ Write("FLASH_KEYR", FLASH_KEYR_KEY1)
       /\ Return

flash_unlock ==
    \/ Begin("flash_unlock", [none |-> {}])
    \/ /\ At("flash_unlock", 1)
       /\ Read("FLASH_CR", 2)
    \/ /\ At("flash_unlock", 2)
       /\ Write("FLASH_CR", UnlockSequenceClear(Top.tmp))
       /\ Goto(3)
    \/ /\ At("flash_unlock", 3)
       /\ Write("FLASH_KEYR", FLASH_KEYR_KEY1)
       /\ Goto(4)
    \/ /\ At("flash_unlock", 4)
       /\ Write("FLASH_KEYR", FLASH_KEYR_KEY2)
       /\ Return

flash_lock ==
    \/ Begin("flash_lock", [none |-> {}])
    \/ /\ At("flash_lock", 1)
       /\ Read("FLASH_CR", 2)
    \/ /\ At("flash_lock", 2)
       /\ Write("FLASH_CR", Top.tmp \cup FLASH_CR_LOCK)
       /\ Return

\* the poll without the barrier
flash_wait_for_last_operation_noStall ==
    \/ /\ At("flash_wait_for_last_operation", 1)
       /\ Goto(2)
       /\ Local
    \/ /\ At("flash_wait_for_last_operation", 2)
       /\ HwRead(Hw, "FLASH_SR") \cap FLASH_SR_BSY = FLASH_SR_BSY
       /\ Top.n < MaxPolls
       /\ stack' = [stack EXCEPT ![Len(stack)].n = @ + 1]
       /\ trace' = Append(trace, Ev("read", "FLASH_SR", HwRead(Hw, "FLASH_SR"), {}))
       /\ UNCHANGED <<hwvars, call>>
    \/ /\ At("flash_wait_for_last_operation", 2)
       /\ HwRead(Hw, "FLASH_SR") \cap FLASH_SR_BSY # FLASH_SR_BSY
       /\ trace' = Append(trace, Ev("read", "FLASH_SR", HwRead(Hw, "FLASH_SR"), {}))
       /\ Return
       /\ UNCHANGED <<hwvars, call>>

flash_wait_for_last_operation ==
    \/ /\ At("flash_wait_for_last_operation", 1)
       /\ Enter(2, "flash_pipeline_stall", [none |-> {}])
    \/ /\ At("flash_wait_for_last_operation", 2)
       /\ HwRead(Hw, "FLASH_SR") \cap FLASH_SR_BSY = FLASH_SR_BSY
       /\ Top.n < MaxPolls
       /\ stack' = [stack EXCEPT ![Len(stack)].n = @ + 1]
       /\ trace' = Append(trace, Ev("read", "FLASH_SR", HwRead(Hw, "FLASH_SR"), {}))
       /\ UNCHANGED <<hwvars, call>>
    \/ /\ At("flash_wait_for_last_operation", 2)
       /\ HwRead(Hw, "FLASH_SR") \cap FLASH_SR_BSY # FLASH_SR_BSY
       /\ trace' = Append(trace, Ev("read", "FLASH_SR", HwRead(Hw, "FLASH_SR"), {}))
       /\ Return
       /\ UNCHANGED <<hwvars, call>>

flash_unlock_option_bytes ==
    \/ Begin("flash_unlock_option_bytes", [none |-> {}])
    \/ /\ At("flash_unlock_option_bytes", 1)
       /\ Read("FLASH_OPTCR", 2)
    \/ /\ At("flash_unlock_option_bytes", 2)
       /\ Write("FLASH_OPTCR", Top.tmp \cup FLASH_OPTCR_OPTLOCK)
       /\ Goto(3)
    \/ /\ At("flash_unlock_option_bytes", 3)
       /\ Write("FLASH_OPTKEYR", FLASH_OPTKEYR_KEY1)
       /\ Goto(4)
    \/ /\ At("flash_unlock_option_bytes", 4)
       /\ Write("FLASH_OPTKEYR", FLASH_OPTKEYR_KEY2)
       /\ Return

\* the lock bit set in the control register of the other controller
flash_lock_option_bytes_wrongRegister ==
    \/ Begin("flash_lock_option_bytes", [none |-> {}])
    \/ /\ At("flash_lock_option_bytes", 1)
       /\ Read("FLASH_CR", 2)
    \/ /\ At("flash_lock_option_bytes", 2)
       /\ Write("FLASH_CR", Top.tmp \cup FLASH_CR_LOCK)
       /\ Return

flash_lock_option_bytes ==
    \/ Begin("flash_lock_option_bytes", [none |-> {}])
    \/ /\ At("flash_lock_option_bytes", 1)
       /\ Read("FLASH_OPTCR", 2)
    \/ /\ At("flash_lock_option_bytes", 2)
       /\ Write("FLASH_OPTCR", Top.tmp \cup FLASH_OPTCR_OPTLOCK)
       /\ Return

\* the register assigned instead of modified
flash_art_enable_assign ==
    \/ Begin("flash_art_enable", [none |-> {}])
    \/ /\ At("flash_art_enable", 1)
       /\ Read("FLASH_ACR", 2)
    \/ /\ At("flash_art_enable", 2)
       /\ Write("FLASH_ACR", FLASH_ACR_ARTEN)
       /\ Return

flash_art_enable ==
    \/ Begin("flash_art_enable", [none |-> {}])
    \/ /\ At("flash_art_enable", 1)
       /\ Read("FLASH_ACR", 2)
    \/ /\ At("flash_art_enable", 2)
       /\ Write("FLASH_ACR", Top.tmp \cup FLASH_ACR_ARTEN)
       /\ Return

flash_prefetch_enable ==
    \/ Begin("flash_prefetch_enable", [none |-> {}])
    \/ /\ At("flash_prefetch_enable", 1)
       /\ Read("FLASH_ACR", 2)
    \/ /\ At("flash_prefetch_enable", 2)
       /\ Write("FLASH_ACR", Top.tmp \cup FLASH_ACR_PRFTEN)
       /\ Return

flash_prefetch_disable ==
    \/ Begin("flash_prefetch_disable", [none |-> {}])
    \/ /\ At("flash_prefetch_disable", 1)
       /\ Read("FLASH_ACR", 2)
    \/ /\ At("flash_prefetch_disable", 2)
       /\ Write("FLASH_ACR", Top.tmp \cap Not32(FLASH_ACR_PRFTEN))
       /\ Return

flash_art_reset ==
    \/ Begin("flash_art_reset", [none |-> {}])
    \/ /\ At("flash_art_reset", 1)
       /\ Read("FLASH_ACR", 2)
    \/ /\ At("flash_art_reset", 2)
       /\ Write("FLASH_ACR", Top.tmp \cup FLASH_ACR_ARTRST)
       /\ Return

MassEraseDisable_kept(cr) == cr

\* FLASH_CR &= ~FLASH_CR_MER
MassEraseDisable(cr) == cr \cap Not32(FLASH_CR_MER)

\* the strobe set before the mass erase bit
flash_erase_all_sectors_strobeFirst ==
    \/ \E ps \in ProgramSizes : Begin("flash_erase_all_sectors", [program_size |-> ps])
    \/ /\ At("flash_erase_all_sectors", 1)
       /\ Enter(2, "flash_wait_for_last_operation", [none |-> {}])
    \/ /\ At("flash_erase_all_sectors", 2)
       /\ Enter(3, "flash_set_program_size", [psize |-> Top.arg.program_size])
    \/ /\ At("flash_erase_all_sectors", 3)
       /\ Read("FLASH_CR", 4)
    \/ /\ At("flash_erase_all_sectors", 4)
       /\ Write("FLASH_CR", Top.tmp \cup FLASH_CR_STRT)
       /\ Goto(5)
    \/ /\ At("flash_erase_all_sectors", 5)
       /\ Read("FLASH_CR", 6)
    \/ /\ At("flash_erase_all_sectors", 6)
       /\ Write("FLASH_CR", Top.tmp \cup FLASH_CR_MER)
       /\ Goto(7)
    \/ /\ At("flash_erase_all_sectors", 7)
       /\ Enter(8, "flash_wait_for_last_operation", [none |-> {}])
    \/ /\ At("flash_erase_all_sectors", 8)
       /\ Read("FLASH_CR", 9)
    \/ /\ At("flash_erase_all_sectors", 9)
       /\ Write("FLASH_CR", MassEraseDisable(Top.tmp))
       /\ Return

flash_erase_all_sectors ==
    \/ \E ps \in ProgramSizes : Begin("flash_erase_all_sectors", [program_size |-> ps])
    \/ /\ At("flash_erase_all_sectors", 1)
       /\ Enter(2, "flash_wait_for_last_operation", [none |-> {}])
    \/ /\ At("flash_erase_all_sectors", 2)
       /\ Enter(3, "flash_set_program_size", [psize |-> Top.arg.program_size])
    \/ /\ At("flash_erase_all_sectors", 3)
       /\ Read("FLASH_CR", 4)
    \/ /\ At("flash_erase_all_sectors", 4)
       /\ Write("FLASH_CR", Top.tmp \cup FLASH_CR_MER)
       /\ Goto(5)
    \/ /\ At("flash_erase_all_sectors", 5)
       /\ Read("FLASH_CR", 6)
    \/ /\ At("flash_erase_all_sectors", 6)
       /\ Write("FLASH_CR", Top.tmp \cup FLASH_CR_STRT)
       /\ Goto(7)
    \/ /\ At("flash_erase_all_sectors", 7)
       /\ Enter(8, "flash_wait_for_last_operation", [none |-> {}])
    \/ /\ At("flash_erase_all_sectors", 8)
       /\ Read("FLASH_CR", 9)
    \/ /\ At("flash_erase_all_sectors", 9)
       /\ Write("FLASH_CR", MassEraseDisable(Top.tmp))
       /\ Return

\* the strobe set before the sector erase bit
flash_erase_sector_strobeFirst ==
    \/ \E sec \in Sectors, ps \in ProgramSizes :
          Begin("flash_erase_sector", [sector |-> sec, program_size |-> ps])
    \/ /\ At("flash_erase_sector", 1)
       /\ Enter(2, "flash_wait_for_last_operation", [none |-> {}])
    \/ /\ At("flash_erase_sector", 2)
       /\ Enter(3, "flash_set_program_size", [psize |-> Top.arg.program_size])
    \/ /\ At("flash_erase_sector", 3)
       /\ Read("FLASH_CR", 4)
    \/ /\ At("flash_erase_sector", 4)
       /\ Write("FLASH_CR", Top.tmp \cap Not32(Shl(FLASH_CR_SNB_MASK, FLASH_CR_SNB_SHIFT)))
       /\ Goto(5)
    \/ /\ At("flash_erase_sector", 5)
       /\ Read("FLASH_CR", 6)
    \/ /\ At("flash_erase_sector", 6)
       /\ Write("FLASH_CR", Top.tmp \cup Shl(BitsOf(Top.arg.sector) \cap FLASH_CR_SNB_MASK,
                                             FLASH_CR_SNB_SHIFT))
       /\ Goto(7)
    \/ /\ At("flash_erase_sector", 7)
       /\ Read("FLASH_CR", 8)
    \/ /\ At("flash_erase_sector", 8)
       /\ Write("FLASH_CR", Top.tmp \cup FLASH_CR_STRT)
       /\ Goto(9)
    \/ /\ At("flash_erase_sector", 9)
       /\ Read("FLASH_CR", 10)
    \/ /\ At("flash_erase_sector", 10)
       /\ Write("FLASH_CR", Top.tmp \cup FLASH_CR_SER)
       /\ Goto(11)
    \/ /\ At("flash_erase_sector", 11)
       /\ Enter(12, "flash_wait_for_last_operation", [none |-> {}])
    \/ /\ At("flash_erase_sector", 12)
       /\ Read("FLASH_CR", 13)
    \/ /\ At("flash_erase_sector", 13)
       /\ Write("FLASH_CR", Top.tmp \cap Not32(FLASH_CR_SER))
       /\ Goto(14)
    \/ /\ At("flash_erase_sector", 14)
       /\ Read("FLASH_CR", 15)
    \/ /\ At("flash_erase_sector", 15)
       /\ Write("FLASH_CR", Top.tmp \cap Not32(Shl(FLASH_CR_SNB_MASK, FLASH_CR_SNB_SHIFT)))
       /\ Return

\* the sector number left in the control register
flash_erase_sector_snbKept ==
    \/ \E sec \in Sectors, ps \in ProgramSizes :
          Begin("flash_erase_sector", [sector |-> sec, program_size |-> ps])
    \/ /\ At("flash_erase_sector", 1)
       /\ Enter(2, "flash_wait_for_last_operation", [none |-> {}])
    \/ /\ At("flash_erase_sector", 2)
       /\ Enter(3, "flash_set_program_size", [psize |-> Top.arg.program_size])
    \/ /\ At("flash_erase_sector", 3)
       /\ Read("FLASH_CR", 4)
    \/ /\ At("flash_erase_sector", 4)
       /\ Write("FLASH_CR", Top.tmp \cap Not32(Shl(FLASH_CR_SNB_MASK, FLASH_CR_SNB_SHIFT)))
       /\ Goto(5)
    \/ /\ At("flash_erase_sector", 5)
       /\ Read("FLASH_CR", 6)
    \/ /\ At("flash_erase_sector", 6)
       /\ Write("FLASH_CR", Top.tmp \cup Shl(BitsOf(Top.arg.sector) \cap FLASH_CR_SNB_MASK,
                                             FLASH_CR_SNB_SHIFT))
       /\ Goto(7)
    \/ /\ At("flash_erase_sector", 7)
       /\ Read("FLASH_CR", 8)
    \/ /\ At("flash_erase_sector", 8)
       /\ Write("FLASH_CR", Top.tmp \cup FLASH_CR_SER)
       /\ Goto(9)
    \/ /\ At("flash_erase_sector", 9)
       /\ Read("FLASH_CR", 10)
    \/ /\ At("flash_erase_sector", 10)
       /\ Write("FLASH_CR", Top.tmp \cup FLASH_CR_STRT)
       /\ Goto(11)
    \/ /\ At("flash_erase_sector", 11)
       /\ Enter(12, "flash_wait_for_last_operation", [none |-> {}])
    \/ /\ At("flash_erase_sector", 12)
       /\ Read("FLASH_CR", 13)
    \/ /\ At("flash_erase_sector", 13)
       /\ Write("FLASH_CR", Top.tmp \cap Not32(FLASH_CR_SER))
       /\ Return

flash_erase_sector ==
    \/ \E sec \in Sectors, ps \in ProgramSizes :
          Begin("flash_erase_sector", [sector |-> sec, program_size |-> ps])
    \/ /\ At("flash_erase_sector", 1)
       /\ Enter(2, "flash_wait_for_last_operation", [none |-> {}])
    \/ /\ At("flash_erase_sector", 2)
       /\ Enter(3, "flash_set_program_size", [psize |-> Top.arg.program_size])
    \/ /\ At("flash_erase_sector", 3)
       /\ Read("FLASH_CR", 4)
    \/ /\ At("flash_erase_sector", 4)
       /\ Write("FLASH_CR", Top.tmp \cap Not32(Shl(FLASH_CR_SNB_MASK, FLASH_CR_SNB_SHIFT)))
       /\ Goto(5)
    \/ /\ At("flash_erase_sector", 5)
       /\ Read("FLASH_CR", 6)
    \/ /\ At("flash_erase_sector", 6)
       /\ Write("FLASH_CR", Top.tmp \cup Shl(BitsOf(Top.arg.sector) \cap FLASH_CR_SNB_MASK,
                                             FLASH_CR_SNB_SHIFT))
       /\ Goto(7)
    \/ /\ At("flash_erase_sector", 7)
       /\ Read("FLASH_CR", 8)
    \/ /\ At("flash_erase_sector", 8)
       /\ Write("FLASH_CR", Top.tmp \cup FLASH_CR_SER)
       /\ Goto(9)
    \/ /\ At("flash_erase_sector", 9)
       /\ Read("FLASH_CR", 10)
    \/ /\ At("flash_erase_sector", 10)
       /\ Write("FLASH_CR", Top.tmp \cup FLASH_CR_STRT)
       /\ Goto(11)
    \/ /\ At("flash_erase_sector", 11)
       /\ Enter(12, "flash_wait_for_last_operation", [none |-> {}])
    \/ /\ At("flash_erase_sector", 12)
       /\ Read("FLASH_CR", 13)
    \/ /\ At("flash_erase_sector", 13)
       /\ Write("FLASH_CR", Top.tmp \cap Not32(FLASH_CR_SER))
       /\ Goto(14)
    \/ /\ At("flash_erase_sector", 14)
       /\ Read("FLASH_CR", 15)
    \/ /\ At("flash_erase_sector", 15)
       /\ Write("FLASH_CR", Top.tmp \cap Not32(Shl(FLASH_CR_SNB_MASK, FLASH_CR_SNB_SHIFT)))
       /\ Return

\* the store issued before the program bit is set
ProgramBody_storeFirst(fn, psize, mmio) ==
    \/ /\ At(fn, 1)
       /\ Enter(2, "flash_wait_for_last_operation", [none |-> {}])
    \/ /\ At(fn, 2)
       /\ Enter(5, "flash_set_program_size", [psize |-> psize])
    \/ /\ At(fn, 5)
       /\ Store(mmio, Top.arg.address, Top.arg.data)
       /\ Goto(3)
    \/ /\ At(fn, 3)
       /\ Read("FLASH_CR", 4)
    \/ /\ At(fn, 4)
       /\ Write("FLASH_CR", Top.tmp \cup FLASH_CR_PG)
       /\ Goto(6)
    \/ /\ At(fn, 6)
       /\ Enter(7, "flash_wait_for_last_operation", [none |-> {}])
    \/ /\ At(fn, 7)
       /\ Read("FLASH_CR", 8)
    \/ /\ At(fn, 8)
       /\ Write("FLASH_CR", Top.tmp \cap Not32(FLASH_CR_PG))
       /\ Return

\* the store issued again after the wait
ProgramBody_retry(fn, psize, mmio) ==
    \/ /\ At(fn, 1)
       /\ Enter(2, "flash_wait_for_last_operation", [none |-> {}])
    \/ /\ At(fn, 2)
       /\ Enter(3, "flash_set_program_size", [psize |-> psize])
    \/ /\ At(fn, 3)
       /\ Read("FLASH_CR", 4)
    \/ /\ At(fn, 4)
       /\ Write("FLASH_CR", Top.tmp \cup FLASH_CR_PG)
       /\ Goto(5)
    \/ /\ At(fn, 5)
       /\ Store(mmio, Top.arg.address, Top.arg.data)
       /\ Goto(6)
    \/ /\ At(fn, 6)
       /\ Enter(9, "flash_wait_for_last_operation", [none |-> {}])
    \/ /\ At(fn, 9)
       /\ Store(mmio, Top.arg.address, Top.arg.data)
       /\ Goto(10)
    \/ /\ At(fn, 10)
       /\ Enter(7, "flash_wait_for_last_operation", [none |-> {}])
    \/ /\ At(fn, 7)
       /\ Read("FLASH_CR", 8)
    \/ /\ At(fn, 8)
       /\ Write("FLASH_CR", Top.tmp \cap Not32(FLASH_CR_PG))
       /\ Return

\* the program bit cleared without the wait after the store
ProgramBody_noWait(fn, psize, mmio) ==
    \/ /\ At(fn, 1)
       /\ Enter(2, "flash_wait_for_last_operation", [none |-> {}])
    \/ /\ At(fn, 2)
       /\ Enter(3, "flash_set_program_size", [psize |-> psize])
    \/ /\ At(fn, 3)
       /\ Read("FLASH_CR", 4)
    \/ /\ At(fn, 4)
       /\ Write("FLASH_CR", Top.tmp \cup FLASH_CR_PG)
       /\ Goto(5)
    \/ /\ At(fn, 5)
       /\ Store(mmio, Top.arg.address, Top.arg.data)
       /\ Goto(7)
    \/ /\ At(fn, 7)
       /\ Read("FLASH_CR", 8)
    \/ /\ At(fn, 8)
       /\ Write("FLASH_CR", Top.tmp \cap Not32(FLASH_CR_PG))
       /\ Return

\* the body the four program primitives share: fn(address, data) programs
\* with the width psize and stores through mmio
ProgramBody(fn, psize, mmio) ==
    \/ /\ At(fn, 1)
       /\ Enter(2, "flash_wait_for_last_operation", [none |-> {}])
    \/ /\ At(fn, 2)
       /\ Enter(3, "flash_set_program_size", [psize |-> psize])
    \/ /\ At(fn, 3)
       /\ Read("FLASH_CR", 4)
    \/ /\ At(fn, 4)
       /\ Write("FLASH_CR", Top.tmp \cup FLASH_CR_PG)
       /\ Goto(5)
    \/ /\ At(fn, 5)
       /\ Store(mmio, Top.arg.address, Top.arg.data)
       /\ Goto(6)
    \/ /\ At(fn, 6)
       /\ Enter(7, "flash_wait_for_last_operation", [none |-> {}])
    \/ /\ At(fn, 7)
       /\ Read("FLASH_CR", 8)
    \/ /\ At(fn, 8)
       /\ Write("FLASH_CR", Top.tmp \cap Not32(FLASH_CR_PG))
       /\ Return

flash_program_double_word ==
    \/ \E a \in Addresses, d \in Data :
          Begin("flash_program_double_word", [address |-> a, data |-> d])
    \/ ProgramBody("flash_program_double_word", FLASH_CR_PROGRAM_X64, "MMIO64")

flash_program_word ==
    \/ \E a \in Addresses, d \in Data :
          Begin("flash_program_word", [address |-> a, data |-> d])
    \/ ProgramBody("flash_program_word", FLASH_CR_PROGRAM_X32, "MMIO32")

\* the half word programmed with the width of a word
flash_program_half_word_x32 ==
    \/ \E a \in Addresses, d \in Data :
          Begin("flash_program_half_word", [address |-> a, data |-> d])
    \/ ProgramBody("flash_program_half_word", FLASH_CR_PROGRAM_X32, "MMIO16")

flash_program_half_word ==
    \/ \E a \in Addresses, d \in Data :
          Begin("flash_program_half_word", [address |-> a, data |-> d])
    \/ ProgramBody("flash_program_half_word", FLASH_CR_PROGRAM_X16, "MMIO16")

flash_program_byte ==
    \/ \E a \in Addresses, d \in Data :
          Begin("flash_program_byte", [address |-> a, data |-> d])
    \/ ProgramBody("flash_program_byte", FLASH_CR_PROGRAM_X8, "MMIO8")

\* every byte programmed at the first address
flash_program_sameAddress ==
    \/ \E a \in BulkAddresses, d \in Blocks, len \in 0..MaxLen :
          Begin("flash_program", [address |-> a, data |-> d, len |-> len])
    \/ /\ At("flash_program", 1)
       /\ Top.n < Top.arg.len
       /\ Enter(2, "flash_program_byte",
                [address |-> Top.arg.address, data |-> Top.arg.data[Top.n + 1]])
    \/ /\ At("flash_program", 2)
       /\ stack' = [stack EXCEPT ![Len(stack)].n = @ + 1, ![Len(stack)].pc = 1]
       /\ Local
    \/ /\ At("flash_program", 1)
       /\ ~(Top.n < Top.arg.len)
       /\ Return
       /\ Local

\* n counts i
flash_program ==
    \/ \E a \in BulkAddresses, d \in Blocks, len \in 0..MaxLen :
          Begin("flash_program", [address |-> a, data |-> d, len |-> len])
    \/ /\ At("flash_program", 1)
       /\ Top.n < Top.arg.len
       /\ Enter(2, "flash_program_byte",
                [address |-> Add32(Top.arg.address, Top.n), data |-> Top.arg.data[Top.n + 1]])
    \/ /\ At("flash_program", 2)
       /\ stack' = [stack EXCEPT ![Len(stack)].n = @ + 1, ![Len(stack)].pc = 1]
       /\ Local
    \/ /\ At("flash_program", 1)
       /\ ~(Top.n < Top.arg.len)
       /\ Return
       /\ Local

OptionImage_unmasked(data) == data

\* data & ~0x3
OptionImage(data) == data \cap Not32(BitsOf(3))

\* the option bytes unlocked whatever the option lock bit reads
flash_program_option_bytes_alwaysUnlock ==
    \/ \E d \in OptionBytes : Begin("flash_program_option_bytes", [data |-> d])
    \/ /\ At("flash_program_option_bytes", 1)
       /\ Enter(2, "flash_wait_for_last_operation", [none |-> {}])
    \/ /\ At("flash_program_option_bytes", 2)
       /\ trace' = Append(trace, Ev("read", "FLASH_OPTCR", HwRead(Hw, "FLASH_OPTCR"), {}))
       /\ stack' = Append([stack EXCEPT ![Len(stack)].pc = 3],
                          Frame("flash_unlock_option_bytes", [none |-> {}]))
       /\ UNCHANGED <<hwvars, call>>
    \/ /\ At("flash_program_option_bytes", 3)
       /\ Write("FLASH_OPTCR", OptionImage(Top.arg.data))
       /\ Goto(4)
    \/ /\ At("flash_program_option_bytes", 4)
       /\ Read("FLASH_OPTCR", 5)
    \/ /\ At("flash_program_option_bytes", 5)
       /\ Write("FLASH_OPTCR", Top.tmp \cup FLASH_OPTCR_OPTSTRT)
       /\ Goto(6)
    \/ /\ At("flash_program_option_bytes", 6)
       /\ Enter(7, "flash_wait_for_last_operation", [none |-> {}])
    \/ /\ At("flash_program_option_bytes", 7)
       /\ Return
       /\ Local

flash_program_option_bytes ==
    \/ \E d \in OptionBytes : Begin("flash_program_option_bytes", [data |-> d])
    \/ /\ At("flash_program_option_bytes", 1)
       /\ Enter(2, "flash_wait_for_last_operation", [none |-> {}])
    \/ /\ At("flash_program_option_bytes", 2)
       /\ HwRead(Hw, "FLASH_OPTCR") \cap FLASH_OPTCR_OPTLOCK # {}
       /\ trace' = Append(trace, Ev("read", "FLASH_OPTCR", HwRead(Hw, "FLASH_OPTCR"), {}))
       /\ stack' = Append([stack EXCEPT ![Len(stack)].pc = 3],
                          Frame("flash_unlock_option_bytes", [none |-> {}]))
       /\ UNCHANGED <<hwvars, call>>
    \/ /\ At("flash_program_option_bytes", 2)
       /\ HwRead(Hw, "FLASH_OPTCR") \cap FLASH_OPTCR_OPTLOCK = {}
       /\ Read("FLASH_OPTCR", 3)
    \/ /\ At("flash_program_option_bytes", 3)
       /\ Write("FLASH_OPTCR", OptionImage(Top.arg.data))
       /\ Goto(4)
    \/ /\ At("flash_program_option_bytes", 4)
       /\ Read("FLASH_OPTCR", 5)
    \/ /\ At("flash_program_option_bytes", 5)
       /\ Write("FLASH_OPTCR", Top.tmp \cup FLASH_OPTCR_OPTSTRT)
       /\ Goto(6)
    \/ /\ At("flash_program_option_bytes", 6)
       /\ Enter(7, "flash_wait_for_last_operation", [none |-> {}])
    \/ /\ At("flash_program_option_bytes", 7)
       /\ Return
       /\ Local

FlagClearRequest_zero(sr, flag) == {}

\* FLASH_SR |= flag: the value the read-modify-write writes back
FlagClearRequest(sr, flag) == sr \cup flag

\* the body the five flag-clear functions share
FlagClear(fn, flag) ==
    \/ Begin(fn, [none |-> {}])
    \/ /\ At(fn, 1)
       /\ Read("FLASH_SR", 2)
    \/ /\ At(fn, 2)
       /\ Write("FLASH_SR", FlagClearRequest(Top.tmp, flag))
       /\ Return

flash_clear_pgperr_flag == FlagClear("flash_clear_pgperr_flag", FLASH_SR_PGPERR)

flash_clear_eop_flag == FlagClear("flash_clear_eop_flag", FLASH_SR_EOP)

flash_clear_erserr_flag == FlagClear("flash_clear_erserr_flag", FLASH_SR_ERSERR)

flash_clear_pgaerr_flag == FlagClear("flash_clear_pgaerr_flag", FLASH_SR_PGAERR)

flash_clear_wrperr_flag == FlagClear("flash_clear_wrperr_flag", FLASH_SR_WRPERR)

flash_clear_status_flags ==
    \/ Begin("flash_clear_status_flags", [none |-> {}])
    \/ /\ At("flash_clear_status_flags", 1)
       /\ Enter(2, "flash_clear_erserr_flag", [none |-> {}])
    \/ /\ At("flash_clear_status_flags", 2)
       /\ Enter(3, "flash_clear_pgaerr_flag", [none |-> {}])
    \/ /\ At("flash_clear_status_flags", 3)
       /\ Enter(4, "flash_clear_wrperr_flag", [none |-> {}])
    \/ /\ At("flash_clear_status_flags", 4)
       /\ Enter(5, "flash_clear_pgperr_flag", [none |-> {}])
    \/ /\ At("flash_clear_status_flags", 5)
       /\ Enter(6, "flash_clear_eop_flag", [none |-> {}])
    \/ /\ At("flash_clear_status_flags", 6)
       /\ Return
       /\ Local

-----------------------------------------------------------------------------
(* The system *)

\* after reset: both controllers locked, no operation in progress, no flag
\* raised, no wait state, the prefetch and the ART cache enabled
Init ==
    /\ CR = FLASH_CR_LOCK
    /\ SR = {}
    /\ ACR = FLASH_ACR_PRFTEN \cup FLASH_ACR_ARTEN
    /\ latencyEff = {}
    /\ OPTCR = FLASH_OPTCR_OPTLOCK
    /\ keyState = "idle"
    /\ optKeyState = "idle"
    /\ stack = <<>>
    /\ call = [fn |-> "reset", arg |-> [none |-> {}]]
    /\ trace = <<>>

\* the functions every operation is built from, and the controller
Common ==
    \/ flash_pipeline_stall
    \/ flash_wait_for_last_operation
    \/ HwComplete

\* the program/erase controller: lock, erase, the four program primitives
NextPrim ==
    \/ Common
    \/ flash_set_program_size
    \/ flash_unlock
    \/ flash_lock
    \/ flash_erase_all_sectors
    \/ flash_erase_sector
    \/ flash_program_double_word
    \/ flash_program_word
    \/ flash_program_half_word
    \/ flash_program_byte

\* the same with the bulk programmer
NextProg == NextPrim \/ flash_program

\* the option byte controller
NextOpt ==
    \/ Common
    \/ flash_unlock_option_bytes
    \/ flash_lock_option_bytes
    \/ flash_program_option_bytes

\* the two lock latches
NextLock == NextOpt \/ flash_unlock \/ flash_lock

\* one operation of each kind that triggers the controller
NextTrigger ==
    \/ NextLock
    \/ flash_set_program_size
    \/ flash_erase_sector
    \/ flash_program_word

\* the access control register
NextAcr ==
    \/ flash_set_ws
    \/ flash_art_enable
    \/ flash_prefetch_enable
    \/ flash_prefetch_disable
    \/ flash_art_reset
    \/ HwLatency

\* the status monitor with the operations that raise the flags it clears
NextStatus ==
    \/ NextPrim
    \/ flash_clear_pgperr_flag
    \/ flash_clear_eop_flag
    \/ flash_clear_erserr_flag
    \/ flash_clear_pgaerr_flag
    \/ flash_clear_wrperr_flag
    \/ flash_clear_status_flags

Next == NextProg \/ NextOpt \/ NextAcr \/ NextStatus

Spec == Init /\ [][Next]_vars

SpecPrim == Init /\ [][NextPrim]_vars

SpecProg == Init /\ [][NextProg]_vars

SpecOpt == Init /\ [][NextOpt]_vars

SpecLock == Init /\ [][NextLock]_vars

SpecTrigger == Init /\ [][NextTrigger]_vars

SpecAcr == Init /\ [][NextAcr]_vars

SpecStatus == Init /\ [][NextStatus]_vars

\* the two controllers side by side: the lock functions of both, the option
\* byte programmer, both erase functions and a program primitive
NextLatches == NextTrigger \/ flash_erase_all_sectors

SpecLatches == Init /\ [][NextLatches]_vars

\* the functions of the access control register and of the option bytes:
\* between them they hold both wait loops of the driver
LiveDriver ==
    \/ flash_pipeline_stall
    \/ flash_wait_for_last_operation
    \/ flash_unlock_option_bytes
    \/ flash_lock_option_bytes
    \/ flash_program_option_bytes
    \/ flash_set_ws
    \/ flash_art_enable
    \/ flash_prefetch_enable
    \/ flash_prefetch_disable
    \/ flash_art_reset

NextLive == LiveDriver \/ HwComplete \/ HwLatency

\* the processor goes on executing a call that has begun, the controller
\* ends the operation in progress, and the latency written takes effect.
\* A wait loop that has polled MaxPolls times polls on without a change of
\* state until the controller acts.
SpecLive ==
    /\ Init
    /\ [][NextLive]_vars
    /\ WF_vars(stack # <<>> /\ LiveDriver)
    /\ WF_vars(HwComplete)
    /\ WF_vars(HwLatency)

-----------------------------------------------------------------------------
(* Properties *)

\* the driver call fn has returned and no other has begun
Returned(fn) == stack = <<>> /\ call.fn = fn

ProgramPrimitives == {"flash_program_byte", "flash_program_half_word",
                      "flash_program_word", "flash_program_double_word"}

EraseOperations == {"flash_erase_all_sectors", "flash_erase_sector"}

EraseProgramOperations == EraseOperations \cup ProgramPrimitives \cup {"flash_program"}

IsWrite(e, reg) == e.op = "write" /\ e.reg = reg

IsRead(e, reg) == e.op = "read" /\ e.reg = reg

\* a poll that saw the busy flag set: the controller was at work during the call
SawBusy == \E i \in DOMAIN trace : IsRead(trace[i], "FLASH_SR") /\ FLASH_SR_BSY \subseteq trace[i].val

\* the positions of the trace that satisfy P
Where(P(_)) == {i \in DOMAIN trace : P(trace[i])}

(***************************************************************************)
(* C1: after any erase or program operation returns, in any sequence of    *)
(* driver calls from reset, a read of the control register shows the       *)
(* sector number field and the sector erase, mass erase and program enable *)
(* bits all zero, whether or not the controller raised an error flag.      *)
(***************************************************************************)
C1_ControlRegisterClean ==
    (stack = <<>> /\ call.fn \in EraseProgramOperations) =>
        HwRead(Hw, "FLASH_CR") \cap
            (SNB_FIELD \cup FLASH_CR_SER \cup FLASH_CR_MER \cup FLASH_CR_PG) = {}

\* a mass erase that ran (the controller was unlocked and busy) and ended
\* with an error flag raised has returned
C1_Witness ==
    /\ Returned("flash_erase_all_sectors")
    /\ SawBusy
    /\ SR \cap (StatusFlags \ FLASH_SR_EOP) # {}

(***************************************************************************)
(* C2: in every program primitive exactly one store to the target address  *)
(* is issued, strictly after the write that sets the program enable bit    *)
(* and strictly before the write that clears it.                           *)
(***************************************************************************)
C2_TriggerByStore ==
    \A fn \in ProgramPrimitives :
        Returned(fn) =>
            LET stores == Where(LAMBDA e : e.op = "store")
                arm == Where(LAMBDA e : IsWrite(e, "FLASH_CR") /\ e.by = fn
                                        /\ FLASH_CR_PG \subseteq e.val)
                disarm == Where(LAMBDA e : IsWrite(e, "FLASH_CR") /\ e.by = fn
                                           /\ ~(FLASH_CR_PG \subseteq e.val))
            IN  /\ Cardinality(stores) = 1
                /\ Cardinality(arm) = 1
                /\ Cardinality(disarm) = 1
                /\ \A s \in stores :
                      /\ trace[s].addr = call.arg.address
                      /\ trace[s].val = call.arg.data
                      /\ \A a \in arm : a < s
                      /\ \A d \in disarm : s < d

\* a word was programmed while the controller was unlocked, and it took time
C2_Witness ==
    /\ Returned("flash_program_word")
    /\ SawBusy
    /\ ~(FLASH_CR_LOCK \subseteq CR)

\* the width encoding of a store: 0, 1, 2, 3 for 8, 16, 32, 64 bits
EncodingOf(mmio) ==
    CASE mmio = "MMIO8" -> BitsOf(0)
      [] mmio = "MMIO16" -> BitsOf(1)
      [] mmio = "MMIO32" -> BitsOf(2)
      [] mmio = "MMIO64" -> BitsOf(3)

\* the store program_u8/u16/u32/u64 issues
StoreOf(fn) ==
    CASE fn = "flash_program_byte" -> "MMIO8"
      [] fn = "flash_program_half_word" -> "MMIO16"
      [] fn = "flash_program_word" -> "MMIO32"
      [] fn = "flash_program_double_word" -> "MMIO64"

\* fn has just issued its store: the program size field of the control
\* register holds the encoding of the store's width, written by
\* flash_set_program_size before fn set the program enable bit
WidthMatchesStore(fn) ==
    LET e == trace[Len(trace)]
        size == Where(LAMBDA w : IsWrite(w, "FLASH_CR") /\ w.by = "flash_set_program_size")
        arm == Where(LAMBDA w : IsWrite(w, "FLASH_CR") /\ w.by = fn)
    IN  /\ e.op = "store"
        /\ e.reg = StoreOf(fn)
        /\ HwRead(Hw, "FLASH_CR") \cap PSIZE_FIELD = Shl(EncodingOf(e.reg), 8)
        /\ arm # {}
        /\ \A a \in arm : FLASH_CR_PG \subseteq trace[a].val /\ \A z \in size : z < a
        /\ \E z \in size : trace[z].val \cap PSIZE_FIELD = Shl(EncodingOf(e.reg), 8)

(***************************************************************************)
(* C3 as stated: at the moment a program primitive issues its store, the   *)
(* program size field equals the encoding of the store's width, whatever   *)
(* an earlier operation left in the control register.  It fails while the  *)
(* control register is locked: the controller ignores the driver's writes. *)
(***************************************************************************)
C3_Original == \A fn \in ProgramPrimitives : At(fn, 6) => WidthMatchesStore(fn)

(***************************************************************************)
(* C3 amended: the same, provided the control register is unlocked when    *)
(* the primitive runs.                                                     *)
(***************************************************************************)
C3_WidthMatchesPrimitive ==
    \A fn \in ProgramPrimitives :
        (At(fn, 6) /\ ~(FLASH_CR_LOCK \subseteq CR)) => WidthMatchesStore(fn)

\* a half word is stored, unlocked, after an operation that left another width
C3_Witness ==
    /\ At("flash_program_half_word", 6)
    /\ ~(FLASH_CR_LOCK \subseteq CR)
    /\ \E i \in DOMAIN trace :
          /\ IsRead(trace[i], "FLASH_CR")
          /\ trace[i].val \cap PSIZE_FIELD = Shl(BitsOf(3), 8)

\* the values written to reg, in order
Written(reg) ==
    LET w == SelectSeq(trace, LAMBDA e : IsWrite(e, reg))
    IN  [i \in 1..Len(w) |-> w[i].val]

(***************************************************************************)
(* C4: unlock() writes to the key register exactly 0x45670123 then         *)
(* 0xCDEF89AB, with no other key register write between them;              *)
(* unlock_option_bytes() does the same on the option key register with     *)
(* 0x08192A3B then 0x4C5D6E7F.                                             *)
(***************************************************************************)
C4_UnlockSequence ==
    /\ Returned("flash_unlock") =>
          /\ Written("FLASH_KEYR") = <<Hex32(<<4, 5, 6, 7, 0, 1, 2, 3>>),
                                       Hex32(<<12, 13, 14, 15, 8, 9, 10, 11>>)>>
          /\ Written("FLASH_OPTKEYR") = <<>>
    /\ Returned("flash_unlock_option_bytes") =>
          /\ Written("FLASH_OPTKEYR") = <<Hex32(<<0, 8, 1, 9, 2, 10, 3, 11>>),
                                          Hex32(<<4, 12, 5, 13, 6, 14, 7, 15>>)>>
          /\ Written("FLASH_KEYR") = <<>>

\* unlock_option_bytes() has returned after unlock() had unlocked the other latch
C4_Witness ==
    /\ Returned("flash_unlock_option_bytes")
    /\ ~(FLASH_OPTCR_OPTLOCK \subseteq OPTCR)
    /\ ~(FLASH_CR_LOCK \subseteq CR)

(***************************************************************************)
(* C5: in any sequence of lock() and unlock() calls from reset, every      *)
(* unlock() issues the two keys anew, and after each call the              *)
(* program/erase controller is unlocked if and only if the call was        *)
(* unlock(), also when unlock() is called while already unlocked.          *)
(***************************************************************************)
C5_LockRearms ==
    /\ Returned("flash_unlock") =>
          /\ ~(FLASH_CR_LOCK \subseteq HwRead(Hw, "FLASH_CR"))
          /\ Len(Written("FLASH_KEYR")) = 2
          /\ keyState = "idle"
    /\ Returned("flash_lock") =>
          /\ FLASH_CR_LOCK \subseteq HwRead(Hw, "FLASH_CR")
          /\ Written("FLASH_KEYR") = <<>>

\* unlock() has returned from a call made while the controller was unlocked
C5_Witness ==
    /\ Returned("flash_unlock")
    /\ IsRead(trace[1], "FLASH_CR")
    /\ ~(FLASH_CR_LOCK \subseteq trace[1].val)

\* the accesses to the control register, in order: a read, then the write
\* of the value computed from it, for every read-modify-write
ControlAccesses == SelectSeq(trace, LAMBDA e : e.reg = "FLASH_CR")

\* the position in the trace of the k-th write to the control register
NthControlWrite(k) ==
    CHOOSE i \in DOMAIN trace :
        /\ IsWrite(trace[i], "FLASH_CR")
        /\ Cardinality({j \in 1..i : IsWrite(trace[j], "FLASH_CR")}) = k

\* a poll between the positions a and b of the trace that saw the busy flag clear
IdleObservedBetween(a, b) ==
    \E i \in (a+1)..(b-1) :
        IsRead(trace[i], "FLASH_SR") /\ ~(FLASH_SR_BSY \subseteq trace[i].val)

(***************************************************************************)
(* C6: erase_sector(n, width), n a sector number and width one of the four *)
(* widths, writes the control register in this order: program size field   *)
(* set to width; sector number field cleared, then set to n; sector erase  *)
(* bit set; strobe bit set, in a write of its own; then, only after a poll *)
(* has seen the busy flag clear, sector erase bit cleared; then sector     *)
(* number field cleared.  Each write is the value just read with that one  *)
(* change; on an unlocked controller the written values show the fields.   *)
(***************************************************************************)
C6_EraseSectorOrder ==
    (/\ Returned("flash_erase_sector")
     /\ call.arg.sector \in 0..23
     /\ call.arg.program_size \in {BitsOf(w) : w \in 0..3}) =>
        LET q == ControlAccesses
            r(k) == q[2 * k - 1]
            w(k) == q[2 * k]
            n == call.arg.sector
            width == call.arg.program_size
        IN  /\ Len(q) = 16
            /\ \A k \in 1..8 : r(k).op = "read" /\ w(k).op = "write"
            /\ w(1).val = r(1).val \ PSIZE_FIELD
            /\ w(2).val = r(2).val \cup Shl(width, 8)
            /\ w(3).val = r(3).val \ SNB_FIELD
            /\ w(4).val = r(4).val \cup Shl(BitsOf(n), 3)
            /\ w(5).val = r(5).val \cup FLASH_CR_SER
            /\ w(6).val = r(6).val \cup FLASH_CR_STRT
            /\ w(7).val = r(7).val \ FLASH_CR_SER
            /\ w(8).val = r(8).val \ SNB_FIELD
            /\ IdleObservedBetween(NthControlWrite(6), NthControlWrite(7))
            /\ ~(FLASH_CR_LOCK \subseteq r(1).val) =>
                  /\ w(2).val \cap PSIZE_FIELD = Shl(width, 8)
                  /\ w(4).val \cap SNB_FIELD = Shl(BitsOf(n), 3)
                  /\ w(5).val \cap (FLASH_CR_SER \cup FLASH_CR_STRT) = FLASH_CR_SER
                  /\ w(6).val = w(5).val \cup FLASH_CR_STRT
                  /\ w(7).val \cap (FLASH_CR_SER \cup FLASH_CR_STRT) = {}
                  /\ w(7).val \cap SNB_FIELD = Shl(BitsOf(n), 3)
                  /\ w(8).val \cap SNB_FIELD = {}

\* S2: sector 3 erased at x32 on an unlocked controller that was seen busy
C6_Witness ==
    /\ Returned("flash_erase_sector")
    /\ call.arg.sector = 3
    /\ call.arg.program_size = BitsOf(2)
    /\ SawBusy
    /\ ~(FLASH_CR_LOCK \subseteq CR)

\* a write that arms or triggers the controller: the strobe, a store to the
\* flash array, the option start bit
Triggers(e) ==
    \/ e.op = "store"
    \/ IsWrite(e, "FLASH_CR") /\ FLASH_CR_STRT \subseteq e.val
    \/ IsWrite(e, "FLASH_OPTCR") /\ FLASH_OPTCR_OPTSTRT \subseteq e.val

(***************************************************************************)
(* C7: every wait for the last operation emits the barrier before its      *)
(* first read of the status register, and a barrier lies between every     *)
(* triggering write (strobe set, data store, option start set) and the     *)
(* next read of the status register.                                       *)
(***************************************************************************)
C7_BarrierBeforePoll ==
    /\ \A i \in DOMAIN trace :
          IsRead(trace[i], "FLASH_SR") =>
              /\ i > 1
              /\ \/ trace[i-1].op = "dsb"
                 \/ IsRead(trace[i-1], "FLASH_SR") /\ trace[i-1].by = trace[i].by
    /\ \A t \in DOMAIN trace :
          Triggers(trace[t]) =>
              \A p \in DOMAIN trace :
                  (p > t /\ IsRead(trace[p], "FLASH_SR")) =>
                      \E d \in (t+1)..(p-1) : trace[d].op = "dsb"

\* the option bytes were programmed: the option start bit was written and
\* the poll after it saw the controller busy
C7_Witness ==
    /\ Returned("flash_program_option_bytes")
    /\ \E t \in DOMAIN trace :
          /\ IsWrite(trace[t], "FLASH_OPTCR")
          /\ FLASH_OPTCR_OPTSTRT \subseteq trace[t].val
          /\ \E p \in DOMAIN trace :
                p > t /\ IsRead(trace[p], "FLASH_SR") /\ FLASH_SR_BSY \subseteq trace[p].val

(***************************************************************************)
(* C8: set_wait_states(n) makes one read-modify-write of the access        *)
(* control register that places n in the latency field, and returns only   *)
(* after a read made after that write shows the latency field equal to n.  *)
(***************************************************************************)
C8_WaitStateReadBack ==
    LET n == call.arg.ws
        last == trace[Len(trace)]
    IN  /\ (call.fn = "flash_set_ws" /\ Len(trace) >= 2 /\ n \subseteq BitsOf(15)) =>
              /\ IsRead(trace[1], "FLASH_ACR")
              /\ IsWrite(trace[2], "FLASH_ACR")
              /\ trace[2].val \cap BitsOf(15) = n
              /\ trace[2].val \ BitsOf(15) = trace[1].val \ BitsOf(15)
        /\ Returned("flash_set_ws") =>
              /\ \A i \in DOMAIN trace : trace[i].reg = "FLASH_ACR"
              /\ Where(LAMBDA e : IsWrite(e, "FLASH_ACR")) = {2}
              /\ trace[2].val = (trace[1].val \ BitsOf(15)) \cup n
              /\ Len(trace) > 2
              /\ IsRead(last, "FLASH_ACR")
              /\ last.val \cap BitsOf(15) = n

\* S6: set_wait_states(7) has returned after a poll that still showed the
\* old latency
C8_Witness ==
    /\ Returned("flash_set_ws")
    /\ call.arg.ws = BitsOf(7)
    /\ Len(trace) > 3
    /\ trace[3].val \cap BitsOf(15) # BitsOf(7)

(***************************************************************************)
(* C9: program_option_bytes(x), for every 32-bit x, writes exactly x with  *)
(* its low two bits cleared to the option control register, then in a      *)
(* later write of its own sets the option start bit and keeps the other    *)
(* bits of the image, and returns only after a final wait has seen the     *)
(* busy flag clear.                                                        *)
(***************************************************************************)
C9_OptionByteMask ==
    Returned("flash_program_option_bytes") =>
        LET w == Where(LAMBDA e : IsWrite(e, "FLASH_OPTCR")
                                  /\ e.by = "flash_program_option_bytes")
            last == trace[Len(trace)]
        IN  /\ Cardinality(w) = 2
            /\ \A a, b \in w :
                  a < b =>
                      /\ trace[a].val = call.arg.data \ {0, 1}
                      /\ trace[b].val = trace[a].val \cup {1}
                      /\ b < Len(trace)
            /\ IsRead(last, "FLASH_SR")
            /\ last.by = "flash_wait_for_last_operation"
            /\ ~(FLASH_SR_BSY \subseteq last.val)

\* an image with the low two bits set was programmed and the controller
\* was seen busy
C9_Witness ==
    /\ Returned("flash_program_option_bytes")
    /\ {0, 1} \subseteq call.arg.data
    /\ SawBusy

\* what an access is in a program cycle; reads of the control register and
\* polls that see the controller busy are not steps of the cycle
StepOf(e) ==
    CASE e.op = "dsb" -> "barrier"
      [] e.op = "store" -> "store"
      [] IsRead(e, "FLASH_SR") -> IF FLASH_SR_BSY \subseteq e.val THEN "skip" ELSE "idle"
      [] IsRead(e, "FLASH_CR") -> "skip"
      [] IsWrite(e, "FLASH_CR") ->
            IF e.by = "flash_set_program_size" THEN "width"
            ELSE IF FLASH_CR_PG \subseteq e.val THEN "arm" ELSE "disarm"
      [] OTHER -> "other"

\* one 8-bit program cycle: wait, set the width (two writes), arm, store,
\* wait, disarm
ByteCycle == <<"barrier", "idle", "width", "width", "arm", "store", "barrier", "idle", "disarm">>

(***************************************************************************)
(* C10: bulk program(address, bytes, len) performs exactly len 8-bit       *)
(* program cycles, each a full wait/arm/store/wait/disarm sequence, the    *)
(* i-th storing bytes[i] at address+i in increasing order of i; with       *)
(* len = 0 it makes no register or flash access at all.                    *)
(***************************************************************************)
C10_BulkProgram ==
    Returned("flash_program") =>
        LET steps == SelectSeq(trace, LAMBDA e : StepOf(e) # "skip")
            stores == SelectSeq(trace, LAMBDA e : e.op = "store")
            len == call.arg.len
        IN  /\ Len(stores) = len
            /\ \A i \in 1..len :
                  /\ stores[i].reg = "MMIO8"
                  /\ stores[i].addr = Add32(call.arg.address, i - 1)
                  /\ stores[i].val = call.arg.data[i]
            /\ Len(steps) = len * Len(ByteCycle)
            /\ \A j \in 1..Len(steps) :
                  StepOf(steps[j]) = ByteCycle[((j - 1) % Len(ByteCycle)) + 1]
            /\ len = 0 => trace = <<>>

\* S4: two bytes were programmed, unlocked, from the last address of the
\* address space on, and the controller was seen busy
C10_Witness ==
    /\ Returned("flash_program")
    /\ call.arg.len = 2
    /\ call.arg.address = WordBits
    /\ ~(FLASH_CR_LOCK \subseteq CR)
    /\ SawBusy

\* the position in the trace of the first access to the control register
FirstControlAccess == CHOOSE i \in DOMAIN trace :
    trace[i].reg = "FLASH_CR" /\ \A j \in 1..(i-1) : trace[j].reg # "FLASH_CR"

(***************************************************************************)
(* C11: erase_all(width), width one of the four widths, performs in order: *)
(* a wait that sees the busy flag clear; program size field set to width;  *)
(* mass erase bit set; strobe bit set, in a later write of its own; a wait *)
(* that sees the busy flag clear; mass erase bit cleared.  The mass erase  *)
(* bit is cleared only after a poll made after the strobe has seen the     *)
(* busy flag clear.  Each write is the value just read with that one       *)
(* change; on an unlocked controller the written values show the fields.   *)
(***************************************************************************)
C11_EraseAllOrder ==
    (/\ Returned("flash_erase_all_sectors")
     /\ call.arg.program_size \in {BitsOf(w) : w \in 0..3}) =>
        LET q == ControlAccesses
            r(k) == q[2 * k - 1]
            w(k) == q[2 * k]
            width == call.arg.program_size
        IN  /\ Len(q) = 10
            /\ \A k \in 1..5 : r(k).op = "read" /\ w(k).op = "write"
            /\ trace[1].op = "dsb"
            /\ IdleObservedBetween(1, FirstControlAccess)
            /\ w(1).val = r(1).val \ PSIZE_FIELD
            /\ w(2).val = r(2).val \cup Shl(width, 8)
            /\ w(3).val = r(3).val \cup FLASH_CR_MER
            /\ w(4).val = r(4).val \cup FLASH_CR_STRT
            /\ w(5).val = r(5).val \ FLASH_CR_MER
            /\ IdleObservedBetween(NthControlWrite(4), NthControlWrite(5))
            /\ NthControlWrite(5) = Len(trace)
            /\ ~(FLASH_CR_LOCK \subseteq r(1).val) =>
                  /\ w(2).val \cap PSIZE_FIELD = Shl(width, 8)
                  /\ w(3).val \cap (FLASH_CR_MER \cup FLASH_CR_STRT) = FLASH_CR_MER
                  /\ w(4).val = w(3).val \cup FLASH_CR_STRT
                  /\ w(5).val \cap (FLASH_CR_MER \cup FLASH_CR_STRT) = {}

\* the whole flash erased at x64 on an unlocked controller whose poll after
\* the strobe saw the controller busy
C11_Witness ==
    /\ Returned("flash_erase_all_sectors")
    /\ call.arg.program_size = BitsOf(3)
    /\ ~(FLASH_CR_LOCK \subseteq CR)
    /\ \E i \in DOMAIN trace :
          /\ i > NthControlWrite(4)
          /\ IsRead(trace[i], "FLASH_SR")
          /\ FLASH_SR_BSY \subseteq trace[i].val

\* the accesses of the current call that trigger the controller
TriggersIssued == Where(LAMBDA e : Triggers(e))

(***************************************************************************)
(* C12: no erase or program operation writes the status register; a flag   *)
(* (end of operation, write protect, alignment, parallelism, erase         *)
(* sequencing) that is set at any step of the operation, raised during it  *)
(* or before, is still set at the next step and so at the return; and the  *)
(* operation issues its trigger, the strobe or the store, exactly once.    *)
(***************************************************************************)
C12_FlagsRemain ==
    /\ [](call.fn \in EraseProgramOperations =>
            /\ \A i \in DOMAIN trace : ~IsWrite(trace[i], "FLASH_SR")
            /\ Cardinality(TriggersIssued) <= 1
            /\ stack = <<>> => Cardinality(TriggersIssued) = 1)
    /\ [][(call.fn \in EraseProgramOperations /\ stack # <<>>) =>
              (SR \cap StatusFlags) \subseteq SR']_vars

\* an erase or program operation has returned with a flag set that its
\* first poll did not see, after the controller was seen busy
C12_Witness ==
    /\ stack = <<>>
    /\ call.fn \in EraseProgramOperations
    /\ SawBusy
    /\ IsRead(trace[2], "FLASH_SR")
    /\ (SR \cap StatusFlags) \ trace[2].val # {}

\* the flag each flag-clear function is for
OwnFlag(fn) ==
    CASE fn = "flash_clear_pgperr_flag" -> FLASH_SR_PGPERR
      [] fn = "flash_clear_eop_flag" -> FLASH_SR_EOP
      [] fn = "flash_clear_erserr_flag" -> FLASH_SR_ERSERR
      [] fn = "flash_clear_pgaerr_flag" -> FLASH_SR_PGAERR
      [] fn = "flash_clear_wrperr_flag" -> FLASH_SR_WRPERR

FlagClearOperations == {"flash_clear_pgperr_flag", "flash_clear_eop_flag", "flash_clear_erserr_flag",
                        "flash_clear_pgaerr_flag", "flash_clear_wrperr_flag"}

(***************************************************************************)
(* C13: each flag-clear operation clears its own flag and leaves the other *)
(* four write-one-to-clear flags as they were when it read the status      *)
(* register: at its return the flags set are those it read, less its own.  *)
(***************************************************************************)
C13_ClearsOwnFlagOnly ==
    \A fn \in FlagClearOperations :
        Returned(fn) =>
            SR \cap StatusFlags = (trace[1].val \cap StatusFlags) \ OwnFlag(fn)

(***************************************************************************)
(* C14: after clear_all_status_flags() has returned with no operation in   *)
(* progress, a read of the status register shows all five                  *)
(* write-one-to-clear flags clear, whatever subset was set at entry.       *)
(***************************************************************************)
C14_AllFlagsClear ==
    (Returned("flash_clear_status_flags") /\ ~Busy(Hw)) =>
        HwRead(Hw, "FLASH_SR") \cap StatusFlags = {}

\* clear_all_status_flags() has returned after its first read of the status
\* register showed two flags set and no operation in progress
C14_Witness ==
    /\ Returned("flash_clear_status_flags")
    /\ Cardinality(trace[1].val \cap StatusFlags) = 2
    /\ ~(FLASH_SR_BSY \subseteq trace[1].val)
    /\ ~Busy(Hw)

\* set_wait_states(n) with an n that does not fit the latency field
WaitStatesTooLarge == call.fn = "flash_set_ws" /\ ~(call.arg.ws \subseteq FLASH_ACR_LATENCY_MASK)

\* C15 as stated: every driver operation that has begun eventually returns,
\* for every argument, when the controller ends every operation and the
\* latency written takes effect
C15_Original == (stack # <<>>) ~> (stack = <<>>)

(***************************************************************************)
(* C15: when the controller ends every operation it has begun and the      *)
(* latency written takes effect, every driver operation that has begun     *)
(* eventually returns, except set_wait_states(n) with n above 15, which    *)
(* never returns.                                                          *)
(***************************************************************************)
C15_EventuallyReturns ==
    /\ (stack # <<>> /\ ~WaitStatesTooLarge) ~> (stack = <<>>)
    /\ [](WaitStatesTooLarge => stack # <<>>)

\* set_wait_states(15) has returned after a poll that showed the latency
\* not yet in effect
C15_Witness ==
    /\ Returned("flash_set_ws")
    /\ call.arg.ws = BitsOf(15)
    /\ \E i \in DOMAIN trace :
          i > 2 /\ IsRead(trace[i], "FLASH_ACR") /\ trace[i].val \cap FLASH_ACR_LATENCY_MASK # BitsOf(15)

\* the last access of the current call, when it is the trigger of an erase
\* or program operation: the strobe or the store
TriggerFired ==
    /\ trace # <<>>
    /\ trace[Len(trace)].by \in EraseProgramOperations
    /\ \/ trace[Len(trace)].op = "store"
       \/ IsWrite(trace[Len(trace)], "FLASH_CR") /\ FLASH_CR_STRT \subseteq trace[Len(trace)].val

\* exactly one of program enable, sector erase and mass erase is set, and
\* the sector number is zero unless a sector is erased
OneSelection(cr) ==
    /\ Cardinality(cr \cap (FLASH_CR_PG \cup FLASH_CR_SER \cup FLASH_CR_MER)) = 1
    /\ trace[Len(trace)].by # "flash_erase_sector" => cr \cap SNB_FIELD = {}

\* C16 as stated: whenever an erase or program operation fires its trigger,
\* exactly one of program enable, sector erase and mass erase is set in the
\* control register, and for a mass erase or a program the sector number
\* field is zero, in any sequence of calls from reset
C16_Original == TriggerFired => OneSelection(HwRead(Hw, "FLASH_CR"))

(***************************************************************************)
(* C16: whenever an erase or program operation fires its trigger (strobe   *)
(* set, or the store) on an unlocked controller, exactly one of program    *)
(* enable, sector erase and mass erase is set in the control register, and *)
(* for a mass erase or a program the sector number field is zero, in any   *)
(* sequence of calls from reset; on a locked controller none of the three  *)
(* is set.                                                                 *)
(***************************************************************************)
C16_OneSelectionAtTrigger ==
    TriggerFired =>
        LET cr == HwRead(Hw, "FLASH_CR")
        IN  IF FLASH_CR_LOCK \subseteq cr
            THEN cr \cap (FLASH_CR_PG \cup FLASH_CR_SER \cup FLASH_CR_MER) = {}
            ELSE OneSelection(cr)

\* a byte is stored on an unlocked controller that starts to program it
C16_Witness ==
    /\ TriggerFired
    /\ trace[Len(trace)].by = "flash_program_byte"
    /\ ~(FLASH_CR_LOCK \subseteq CR)
    /\ Busy(Hw)

\* before the access at position i of the trace a poll has seen the busy
\* flag clear, and nothing has triggered the controller since that poll
IdleKnownAt(i) ==
    \E p \in 1..(i-1) :
        /\ IsRead(trace[p], "FLASH_SR")
        /\ ~(FLASH_SR_BSY \subseteq trace[p].val)
        /\ \A t \in (p+1)..(i-1) : ~Triggers(trace[t])

(***************************************************************************)
(* C17: no erase or program operation writes the control register while    *)
(* the busy flag is set.  Every write of the control register, the program *)
(* size among them, comes after a wait has seen the busy flag clear with   *)
(* no trigger since, so the bit that arms the operation is cleared only    *)
(* after the wait that follows the trigger has seen the busy flag clear;   *)
(* and while that is so the busy flag is clear in the controller.          *)
(***************************************************************************)
C17_NoControlWriteWhileBusy ==
    call.fn \in EraseProgramOperations =>
        /\ \A i \in DOMAIN trace : IsWrite(trace[i], "FLASH_CR") => IdleKnownAt(i)
        /\ IdleKnownAt(Len(trace) + 1) => ~Busy(Hw)

\* a word has been programmed on an unlocked controller: the poll after the
\* store saw the controller busy before the program bit was cleared
C17_Witness ==
    /\ Returned("flash_program_word")
    /\ ~(FLASH_CR_LOCK \subseteq CR)
    /\ \E s \in DOMAIN trace :
          /\ trace[s].op = "store"
          /\ \E p \in (s+1)..Len(trace) :
                IsRead(trace[p], "FLASH_SR") /\ FLASH_SR_BSY \subseteq trace[p].val

\* the positions of the trace where program_option_bytes itself reads or
\* writes the option control register: the first is its check of the lock
OptionAccesses(op) ==
    Where(LAMBDA e : e.reg = "FLASH_OPTCR" /\ e.op = op /\ e.by = "flash_program_option_bytes")

First(S) == CHOOSE i \in S : \A j \in S : i <= j

OptionKeysWritten == Where(LAMBDA e : IsWrite(e, "FLASH_OPTKEYR"))

(***************************************************************************)
(* C18: program_option_bytes writes the option keys if and only if the     *)
(* option lock bit was set in the read it makes after its first wait.  It  *)
(* then writes the two keys, in order, before the image.  The driver       *)
(* leaves the option byte controller unlocked at the return, so from reset *)
(* the first call writes the keys and a call made immediately after a      *)
(* program_option_bytes call begins unlocked and writes nothing to the     *)
(* option key register.                                                    *)
(***************************************************************************)
C18_LazyOptionUnlock ==
    /\ [](Returned("flash_program_option_bytes") =>
            LET check == trace[First(OptionAccesses("read"))]
                image == First(OptionAccesses("write"))
                keys == OptionKeysWritten
            IN  /\ IdleObservedBetween(0, First(OptionAccesses("read")))
                /\ (FLASH_OPTCR_OPTLOCK \subseteq check.val) <=> (keys # {})
                /\ keys # {} =>
                      /\ Cardinality(keys) = 2
                      /\ \A a, b \in keys :
                            a < b => /\ trace[a].val = FLASH_OPTKEYR_KEY1
                                     /\ trace[b].val = FLASH_OPTKEYR_KEY2
                                     /\ b < image
                /\ ~(FLASH_OPTCR_OPTLOCK \subseteq HwRead(Hw, "FLASH_OPTCR")))
    /\ [](call.fn = "reset" => FLASH_OPTCR_OPTLOCK \subseteq HwRead(Hw, "FLASH_OPTCR"))
    /\ [][(Returned("flash_program_option_bytes") /\ stack' # <<>>) =>
              ~(FLASH_OPTCR_OPTLOCK \subseteq HwRead(Hw, "FLASH_OPTCR")')]_vars

\* a call of program_option_bytes has returned without a write to the
\* option key register: its check read the image that an earlier call with
\* the other image had left in the option control register
C18_Witness ==
    /\ Returned("flash_program_option_bytes")
    /\ OptionKeysWritten = {}
    /\ \E d \in OptionBytes \ {call.arg.data} :
          trace[First(OptionAccesses("read"))].val = OptionImage(d)

\* ART enable, ART reset and prefetch enable
AcrControlBits == FLASH_ACR_ARTEN \cup FLASH_ACR_ARTRST \cup FLASH_ACR_PRFTEN

\* the bit each of the other operations on the access control register is for
AcrOwnBit(fn) ==
    CASE fn = "flash_art_enable" -> FLASH_ACR_ARTEN
      [] fn = "flash_art_reset" -> FLASH_ACR_ARTRST
      [] fn = "flash_prefetch_enable" -> FLASH_ACR_PRFTEN
      [] fn = "flash_prefetch_disable" -> FLASH_ACR_PRFTEN

AcrBitOperations == {"flash_art_enable", "flash_art_reset", "flash_prefetch_enable",
                     "flash_prefetch_disable"}

\* art_enable, art_reset, prefetch_enable and prefetch_disable write back
\* what they read but for their own bit, and at the return the register
\* reads as it did but for that bit
AcrBitFrame ==
    /\ (call.fn \in AcrBitOperations /\ Len(trace) >= 2) =>
          trace[2].val \ AcrOwnBit(call.fn) = trace[1].val \ AcrOwnBit(call.fn)
    /\ \A fn \in AcrBitOperations :
          Returned(fn) =>
              HwRead(Hw, "FLASH_ACR") \ AcrOwnBit(fn) = trace[1].val \ AcrOwnBit(fn)

\* C19 as stated: set_wait_states(n), for every argument n, leaves the ART
\* enable, ART reset and prefetch enable bits unchanged, and the other
\* operations leave the latency field and each other's bits unchanged
C19_Original ==
    /\ (call.fn = "flash_set_ws" /\ Len(trace) >= 2) =>
          trace[2].val \cap AcrControlBits = trace[1].val \cap AcrControlBits
    /\ AcrBitFrame

(***************************************************************************)
(* C19: set_wait_states(n) writes back what it read with the latency field *)
(* cleared and all of n set: it leaves the ART enable, ART reset and       *)
(* prefetch enable bits unchanged when n has none of these bits, as every  *)
(* n in 0..15, and sets those that n has.  art_enable, art_reset,          *)
(* prefetch_enable and prefetch_disable leave the latency field and each   *)
(* other's bits unchanged.                                                 *)
(***************************************************************************)
C19_AcrFrame ==
    /\ (call.fn = "flash_set_ws" /\ Len(trace) >= 2) =>
          /\ trace[2].val = (trace[1].val \ FLASH_ACR_LATENCY_MASK) \cup call.arg.ws
          /\ trace[2].val \cap AcrControlBits =
                (trace[1].val \cap AcrControlBits) \cup (call.arg.ws \cap AcrControlBits)
          /\ call.arg.ws \cap AcrControlBits = {} =>
                trace[2].val \cap AcrControlBits = trace[1].val \cap AcrControlBits
    /\ AcrBitFrame

\* prefetch_disable() has returned: it read the prefetch enabled, seven wait
\* states and the ART reset bit set, and left the last two as they were
C19_Witness ==
    /\ Returned("flash_prefetch_disable")
    /\ FLASH_ACR_PRFTEN \cup FLASH_ACR_ARTRST \subseteq trace[1].val
    /\ trace[1].val \cap FLASH_ACR_LATENCY_MASK = BitsOf(7)
    /\ HwRead(Hw, "FLASH_ACR") \cap FLASH_ACR_LATENCY_MASK = BitsOf(7)
    /\ FLASH_ACR_ARTRST \subseteq HwRead(Hw, "FLASH_ACR")

\* the operations on the program/erase controller and on the option bytes
ProgramSide == {"flash_unlock", "flash_lock"} \cup EraseProgramOperations

OptionSide == {"flash_unlock_option_bytes", "flash_lock_option_bytes", "flash_program_option_bytes"}

(***************************************************************************)
(* C20: the two lock latches are independent.  unlock(), lock() and every  *)
(* erase or program operation never write the option control or option key *)
(* register; unlock_option_bytes(), lock_option_bytes() and                *)
(* program_option_bytes() never write the control or key register; and no  *)
(* step of a call on one controller changes the lock bit or the key        *)
(* sequence state of the other.                                            *)
(***************************************************************************)
C20_LatchesIndependent ==
    /\ [](/\ call.fn \in ProgramSide =>
               \A i \in DOMAIN trace :
                   trace[i].op = "write" => trace[i].reg \notin {"FLASH_OPTCR", "FLASH_OPTKEYR"}
          /\ call.fn \in OptionSide =>
               \A i \in DOMAIN trace :
                   trace[i].op \in {"write", "store"} => trace[i].reg \in {"FLASH_OPTCR", "FLASH_OPTKEYR"})
    /\ [][/\ call'.fn \in ProgramSide =>
               /\ OPTCR' \cap FLASH_OPTCR_OPTLOCK = OPTCR \cap FLASH_OPTCR_OPTLOCK
               /\ optKeyState' = optKeyState
          /\ call'.fn \in OptionSide =>
               /\ CR' \cap FLASH_CR_LOCK = CR \cap FLASH_CR_LOCK
               /\ keyState' = keyState]_vars

\* lock() has returned and has locked the program/erase controller while
\* the option byte controller stays unlocked
C20_Witness ==
    /\ Returned("flash_lock")
    /\ ~(FLASH_CR_LOCK \subseteq trace[1].val)
    /\ FLASH_CR_LOCK \subseteq CR
    /\ ~(FLASH_OPTCR_OPTLOCK \subseteq OPTCR)

=============================================================================
